---- MODULE Spec2Model ----
(***************************************************************************)
(* slow-body: socket-level body monitor (setupSocketTimeout) and the       *)
(* Express request gate (slowBodyTimeout) of src/src/index.ts, for one     *)
(* accepted connection that may carry sequential requests.                 *)
(*                                                                         *)
(* Time is counted in watchdog periods (1000 ms), so TickPeriod = 1 and    *)
(* every event happens at a whole number of periods, before or after the   *)
(* interval callback due at that time.  Bytes are "r" (CR), "n" (LF) and   *)
(* "x" (any other byte).                                                   *)
(***************************************************************************)
EXTENDS Integers, Sequences, FiniteSets, TLC

\* ---------------------------------------------------------------- bounds
MaxTime     == 3     \* the clock stops advancing here
Deadline    == 1     \* the `time` argument of setupSocketTimeout
MaxLen      == 1     \* most body bytes a client sends for one request,
                     \* and largest short declared Content-Length
MaxRequests == 2     \* sequential requests carried by the connection

\* ------------------------------------------------------------- constants
TickPeriod         == 1   \* setInterval(..., 1000)
ConnectionOpenTime == 0   \* Date.now() when the connection is accepted
SepLen             == 4   \* headerEnd + 4

None     == -1            \* JavaScript undefined, for numeric slots
NoHeader == <<>>          \* req.headers["content-length"] is undefined

VARIABLES
  now,            \* Date.now()
  firstByteTime,  \* let firstByteTime (None = undefined)
  bytesReceived,  \* socket[kBytesReceived]
  headersReceived,\* let headersReceived
  contentLength,  \* socket[kContentLength] (None = undefined)
  intervalAlive,  \* checkIntervalId has not been cleared
  nextTick,       \* time at which the interval callback runs next
  sock,           \* "open" | "ended" | "destroyed" | "closed"
  crashed,        \* an exception escaped an event callback
  timeoutL,       \* listeners of socket 'timeout'        (request ids)
  incompleteL,    \* listeners of socket 'incompleteBody' (request ids)
  finishL,        \* responses with cleanup on 'finish'
  closeL,         \* responses with cleanup on 'close'
  res,            \* per request: "none" | "sent" | "finished"
  status,         \* per request: res.statusCode (0 = unset)
  mw,             \* current request: "next" | "rejected" by the middleware
  header,         \* current request: req.headers["content-length"]
  reqCount,       \* number of 'request' events so far
  inflight,       \* chunk whose 'data' dispatch is in progress
  \* ---- history of the run (not read by the program)
  hdrTail,        \* last bytes of the current request's header stream
  inBody,         \* the parser is inside the current request's body
  trueBody,       \* body bytes delivered of the request whose body is
                  \* under way (0 outside a body)
  lastDataTime,   \* time of the most recent chunk of a request awaiting body
  timeoutCount,   \* number of socket.emit("timeout")
  incompleteCount,\* number of socket.emit("incompleteBody")
  timeoutReq,     \* reqCount when "timeout" was last emitted (None = never)
  gateSends,      \* per request: responses written by the gate
  steps,          \* steps of the gate handlers in the last dispatch
  reached,        \* the 'data' listener has found the counter equal to
                  \* the declared length, in time
  endSeen         \* the socket has emitted 'end'

monitorVars == <<firstByteTime, bytesReceived, headersReceived,
                 contentLength, intervalAlive, nextTick>>
gateVars    == <<timeoutL, incompleteL, finishL, closeL, res, status,
                 mw, gateSends, steps>>
reqVars     == <<header, reqCount>>
streamVars  == <<hdrTail, inBody, trueBody, lastDataTime, inflight>>
signalVars  == <<timeoutCount, incompleteCount, timeoutReq>>
vars == <<now, monitorVars, sock, crashed, gateVars, reqVars, streamVars,
          signalVars, reached, endSeen>>

Requests == 1..MaxRequests
Methods  == {"GET", "POST", "PUT", "PATCH"}

\* "\r\n\r\n", the header block "x\r\n\r\n" a client sends, and the part
\* of it that comes first when the block is split inside the separator
SEP         == <<"r", "n", "r", "n">>
HeaderBlock == <<"x">> \o SEP
HeaderHead  == SubSeq(HeaderBlock, 1, 3)
HeaderLen   == Len(HeaderBlock)

\* Content-Length headers: absent, the short lengths, and one length as
\* long as a header block
Headers  == {NoHeader} \cup {<<d>> : d \in (0..MaxLen) \cup {HeaderLen}}

\* ------------------------------------------------------- pure functions
RECURSIVE IndexFrom(_, _, _)
IndexFrom(s, p, i) ==
  IF i + Len(p) > Len(s) THEN -1
  ELSE IF SubSeq(s, i + 1, i + Len(p)) = p THEN i
  ELSE IndexFrom(s, p, i + 1)

\* chunk.indexOf("\r\n\r\n"): 0-based offset of the first match, or -1
IndexOf(s, p) == IndexFrom(s, p, 0)

RECURSIVE ParseDigits(_, _)
ParseDigits(h, acc) ==
  IF h = <<>> THEN acc ELSE ParseDigits(Tail(h), acc * 10 + Head(h))

\* parseInt(req.headers["content-length"], 10)
ParseInt(h) == ParseDigits(h, 0)

Xs(n) == [i \in 1..n |-> "x"]

Min(a, b) == IF a < b THEN a ELSE b

\* a header block is sent whole or split inside the separator
Prefixes == { <<>>, HeaderHead, <<"r", "n">>, HeaderBlock }

\* the chunks a client sends
Chunks == { p \o Xs(b) : p \in Prefixes, b \in 0..MaxLen } \ { <<>> }

\* last three bytes of a byte stream
Last3(s) == IF Len(s) <= 3 THEN s ELSE SubSeq(s, Len(s) - 2, Len(s))

\* ------------------------------------------------- the client's stream
\* The HTTP parser scans the stream itself, so it finds a separator that
\* is split over two chunks; hdrTail is what it has seen of it so far.
Completes(c) == ~inBody /\ IndexOf(hdrTail \o c, SEP) # -1

\* body bytes that follow the header end inside a header-completing chunk
BodyIn(c) == Len(hdrTail \o c) - (IndexOf(hdrTail \o c, SEP) + SepLen)

\* the body length the request's header declares to the parser
Declared(h) == IF h = NoHeader THEN 0 ELSE ParseInt(h)

\* the socket still delivers what the client sends
Readable == ~crashed /\ sock = "open"

\* A client sends the next request after it has the previous response.
MayStartRequest ==
  /\ ~inBody
  /\ reqCount < MaxRequests
  /\ (IF reqCount = 0 THEN TRUE ELSE res[reqCount] = "finished")

\* ------------------------------------------------------------- initial
Init ==
  /\ now = ConnectionOpenTime
  /\ firstByteTime = None
  /\ bytesReceived = 0
  /\ headersReceived = FALSE
  /\ contentLength = None
  /\ intervalAlive = TRUE
  /\ nextTick = ConnectionOpenTime + TickPeriod
  /\ sock = "open"
  /\ crashed = FALSE
  /\ timeoutL = <<>>
  /\ incompleteL = <<>>
  /\ finishL = {}
  /\ closeL = {}
  /\ res = [r \in Requests |-> "none"]
  /\ status = [r \in Requests |-> 0]
  /\ mw = "next"
  /\ header = NoHeader
  /\ reqCount = 0
  /\ inflight = <<>>
  /\ hdrTail = <<>>
  /\ inBody = FALSE
  /\ trueBody = 0
  /\ lastDataTime = ConnectionOpenTime
  /\ timeoutCount = 0
  /\ incompleteCount = 0
  /\ timeoutReq = None
  /\ gateSends = [r \in Requests |-> 0]
  /\ steps = <<>>
  /\ reached = FALSE
  /\ endSeen = FALSE

\* ------------------------------------------------- Connection Monitor
\* server.on("request", ...) of setupSocketTimeout
RequestListener(h) ==
  contentLength' = IF h # NoHeader THEN ParseInt(h) ELSE contentLength

\* a count that takes every byte of every chunk
CountedAll(c) == Len(c)

\* body bytes the 'data' listener adds to the counter for chunk c
Counted(c) ==
  IF ~headersReceived
  THEN IF IndexOf(c, SEP) # -1 THEN Len(c) - (IndexOf(c, SEP) + SepLen)
       ELSE 0
  ELSE Len(c)

\* socket.on("data")
DataHandler(c) ==
  /\ firstByteTime' = IF firstByteTime = None THEN now ELSE firstByteTime
  /\ headersReceived' = (headersReceived \/ IndexOf(c, SEP) # -1)
  /\ bytesReceived' = bytesReceived + Counted(c)
  /\ intervalAlive' = IF bytesReceived' = contentLength THEN FALSE
                      ELSE intervalAlive
  /\ nextTick' = IF bytesReceived' = contentLength THEN None ELSE nextTick

\* a chunk the client may send now, given what it has sent so far: the
\* chunk under dispatch, body bytes still owed (a client that declared
\* the long length stalls after MaxLen bytes at most), or one fragment
\* of the next request's headers
MaySend(c) ==
  IF inflight # <<>> THEN c = inflight
  ELSE IF inBody
       THEN \E b \in 1..(Min(Declared(header), MaxLen) - trueBody) :
              c = Xs(b)
       ELSE MayStartRequest /\ hdrTail = <<>> /\ c = HeaderHead

OnData(c) ==
  /\ Readable
  /\ MaySend(c)
  /\ DataHandler(c)
  /\ inflight' = <<>>
  /\ IF inflight # <<>>
     THEN /\ trueBody' = IF BodyIn(c) < Declared(header) THEN BodyIn(c)
                         ELSE 0
          /\ inBody' = (BodyIn(c) < Declared(header))
          /\ hdrTail' = <<>>
     ELSE IF inBody
     THEN /\ trueBody' = IF trueBody + Len(c) < Declared(header)
                         THEN trueBody + Len(c) ELSE 0
          /\ inBody' = (trueBody + Len(c) < Declared(header))
          /\ hdrTail' = hdrTail
     ELSE /\ trueBody' = trueBody
          /\ inBody' = inBody
          /\ hdrTail' = Last3(hdrTail \o c)
  /\ lastDataTime' = IF inBody' THEN now ELSE ConnectionOpenTime
  /\ reached' = \/ reached
                 \/ /\ bytesReceived' = contentLength
                    /\ timeoutCount = 0
                    /\ now - firstByteTime' <= Deadline
  /\ UNCHANGED <<now, contentLength, sock, crashed, gateVars, reqVars,
                 signalVars, endSeen>>

\* --------------------------------------------------------- Request Gate
\* The handlers act on the gate's view of the world, a record g:
\*   res, status, timeoutL, incompleteL, finishL, closeL, sock, gateSends,
\*   steps, thrown (an exception is propagating).
GateState ==
  [res |-> res, status |-> status, timeoutL |-> timeoutL,
   incompleteL |-> incompleteL, finishL |-> finishL, closeL |-> closeL,
   sock |-> sock, gateSends |-> gateSends, steps |-> <<>>,
   thrown |-> FALSE]

\* emitter.removeListener(event, fn): drops the most recently added
\* instance of fn, and nothing when fn is not registered
RECURSIVE RemoveListener(_, _)
RemoveListener(l, r) ==
  IF l = <<>> THEN <<>>
  ELSE IF l[Len(l)] = r THEN SubSeq(l, 1, Len(l) - 1)
  ELSE Append(RemoveListener(SubSeq(l, 1, Len(l) - 1), r), l[Len(l)])

\* cleanup() that insists on being attached: detaching twice raises
cleanupStrict(g, r) ==
  IF r \notin g.finishL /\ r \notin g.closeL
  THEN [g EXCEPT !.thrown = TRUE]
  ELSE [g EXCEPT !.timeoutL = RemoveListener(@, r),
                 !.incompleteL = RemoveListener(@, r),
                 !.finishL = @ \ {r},
                 !.closeL = @ \ {r}]

\* function cleanup()
cleanup(g, r) ==
  [g EXCEPT !.timeoutL = RemoveListener(@, r),
            !.incompleteL = RemoveListener(@, r),
            !.finishL = @ \ {r},
            !.closeL = @ \ {r}]

\* res.status(code).send(body): Express sets headers first, which throws
\* ERR_HTTP_HEADERS_SENT once the response's headers have been sent
Send(g, r, code) ==
  IF g.res[r] # "none"
  THEN [g EXCEPT !.thrown = TRUE, !.steps = Append(@, <<r, "throw">>)]
  ELSE [g EXCEPT !.res[r] = "sent", !.status[r] = code,
                 !.gateSends[r] = @ + 1,
                 !.steps = Append(@, <<r, "send">>)]

\* req.destroy()
Destroy(g, r) ==
  [g EXCEPT !.sock = IF @ = "closed" THEN @ ELSE "destroyed",
            !.steps = Append(@, <<r, "destroy">>)]

Log(g, r) == [g EXCEPT !.steps = Append(@, <<r, "log">>)]

\* onTimeout that forgets req.destroy()
onTimeoutNoDestroy(g, r) ==
  LET g1 == Log(g, r)
      g2 == Send(g1, r, 408)
  IN  IF g2.thrown THEN g2 ELSE cleanup(g2, r)

\* const onTimeout = () => { ... }
onTimeout(g, r) ==
  LET g1 == Log(g, r)
      g2 == Send(g1, r, 408)
  IN  IF g2.thrown THEN g2 ELSE cleanup(Destroy(g2, r), r)

\* onIncomplete copied from onTimeout with the status left at 408
onIncompleteWrongStatus(g, r) ==
  LET g1 == Log(g, r)
      g2 == Send(g1, r, 408)
  IN  IF g2.thrown THEN g2 ELSE cleanup(Destroy(g2, r), r)

\* onIncomplete that answers before it logs
onIncompleteSendFirst(g, r) ==
  LET g1 == Send(g, r, 400)
      g2 == Log(g1, r)
  IN  IF g1.thrown THEN g1 ELSE cleanup(Destroy(g2, r), r)

\* const onIncomplete = () => { ... }
onIncomplete(g, r) ==
  LET g1 == Log(g, r)
      g2 == Send(g1, r, 400)
  IN  IF g2.thrown THEN g2 ELSE cleanup(Destroy(g2, r), r)

\* socket.emit(event): the listeners registered when the emit starts run
\* in order; an exception ends the dispatch and leaves the emit
RECURSIVE EmitTimeout(_, _)
EmitTimeout(l, g) ==
  IF l = <<>> \/ g.thrown THEN g
  ELSE EmitTimeout(Tail(l), onTimeout(g, Head(l)))

RECURSIVE EmitIncomplete(_, _)
EmitIncomplete(l, g) ==
  IF l = <<>> \/ g.thrown THEN g
  ELSE EmitIncomplete(Tail(l), onIncomplete(g, Head(l)))

\* the gate's variables after a dispatch that ended in g
Install(g) ==
  /\ res' = g.res
  /\ status' = g.status
  /\ timeoutL' = g.timeoutL
  /\ incompleteL' = g.incompleteL
  /\ finishL' = g.finishL
  /\ closeL' = g.closeL
  /\ gateSends' = g.gateSends
  /\ steps' = g.steps
  /\ crashed' = g.thrown

\* the middleware without its Content-Length "0" check
GateDecisionNoEmptyCheck(m, h) ==
  IF m \notin {"POST", "PUT", "PATCH"} THEN "pass" ELSE "attach"

\* the middleware without its method check
GateDecisionNoMethodCheck(m, h) ==
  IF h = <<0>> THEN "reject" ELSE "attach"

\* what the middleware does with a request of method m and
\* Content-Length header h: pass it on, reject it, or attach and pass on
GateDecision(m, h) ==
  IF m \notin {"POST", "PUT", "PATCH"} THEN "pass"
  ELSE IF h = <<0>> THEN "reject"
  ELSE "attach"

\* the middleware function returned by slowBodyTimeout, for request r
\* with method m and Content-Length header h
Middleware(r, m, h) ==
  IF GateDecision(m, h) = "pass"
  THEN /\ mw' = "next"
       /\ UNCHANGED <<timeoutL, incompleteL, finishL, closeL, res, status,
                      gateSends>>
  ELSE IF GateDecision(m, h) = "reject"
  THEN /\ mw' = "rejected"
       /\ res' = [res EXCEPT ![r] = "sent"]
       /\ status' = [status EXCEPT ![r] = 400]
       /\ gateSends' = [gateSends EXCEPT ![r] = @ + 1]
       /\ UNCHANGED <<timeoutL, incompleteL, finishL, closeL>>
  ELSE /\ mw' = "next"
       /\ timeoutL' = Append(timeoutL, r)
       /\ incompleteL' = Append(incompleteL, r)
       /\ finishL' = finishL \cup {r}
       /\ closeL' = closeL \cup {r}
       /\ UNCHANGED <<res, status, gateSends>>

\* a 'request' listener that starts the interval afresh for each request
OnRequestRearms(c, m, h) ==
  /\ Readable /\ inflight = <<>>
  /\ MayStartRequest
  /\ Completes(c)
  /\ BodyIn(c) <= Declared(h)
  /\ Middleware(reqCount + 1, m, h)
  /\ RequestListener(h)
  /\ reqCount' = reqCount + 1
  /\ header' = h
  /\ inflight' = c
  /\ intervalAlive' = TRUE
  /\ nextTick' = now + TickPeriod
  /\ UNCHANGED <<now, firstByteTime, bytesReceived, headersReceived,
                 sock, crashed, steps, hdrTail, inBody, trueBody,
                 lastDataTime, signalVars, reached, endSeen>>

\* The parser has found the header end of the next request in chunk c,
\* which is being dispatched: the server emits 'request', the Express app
\* (registered first) runs the middleware, then the monitor's listener
\* runs; the monitor's 'data' listener sees the chunk after that.
OnRequest(c, m, h) ==
  /\ Readable /\ inflight = <<>>
  /\ MayStartRequest
  /\ Completes(c)
  /\ BodyIn(c) <= Declared(h)
  /\ Middleware(reqCount + 1, m, h)
  /\ RequestListener(h)
  /\ reqCount' = reqCount + 1
  /\ header' = h
  /\ inflight' = c
  /\ UNCHANGED <<now, firstByteTime, bytesReceived, headersReceived,
                 intervalAlive, nextTick, sock, crashed, steps, hdrTail,
                 inBody, trueBody, lastDataTime, signalVars, reached,
                 endSeen>>

\* the route handler answers request r
RouteSend(r) ==
  /\ ~crashed /\ inflight = <<>>
  /\ r = reqCount /\ mw = "next" /\ res[r] = "none"
  /\ res' = [res EXCEPT ![r] = "sent"]
  /\ status' = [status EXCEPT ![r] = 200]
  /\ UNCHANGED <<now, monitorVars, sock, crashed, timeoutL, incompleteL,
                 finishL, closeL, mw, gateSends, steps, reqVars,
                 streamVars, signalVars, reached, endSeen>>

\* res.on("finish", cleanup): the response has been flushed
ResFinish(r) ==
  /\ ~crashed /\ inflight = <<>>
  /\ res[r] = "sent" /\ sock \in {"open", "ended"}
  /\ LET g == IF r \in finishL THEN cleanup(GateState, r) ELSE GateState
     IN  /\ timeoutL' = g.timeoutL
         /\ incompleteL' = g.incompleteL
         /\ finishL' = g.finishL
         /\ closeL' = g.closeL
  /\ res' = [res EXCEPT ![r] = "finished"]
  /\ UNCHANGED <<now, monitorVars, sock, crashed, status, mw, gateSends,
                 steps, reqVars, streamVars, signalVars, reached, endSeen>>

\* res.on("close", cleanup): the response is over, flushed or not
ResClose(r) ==
  /\ ~crashed /\ inflight = <<>>
  /\ r \in closeL
  /\ (res[r] = "finished" \/ sock = "closed")
  /\ LET g == cleanup(GateState, r)
     IN  /\ timeoutL' = g.timeoutL
         /\ incompleteL' = g.incompleteL
         /\ finishL' = g.finishL
         /\ closeL' = g.closeL
  /\ UNCHANGED <<now, monitorVars, sock, crashed, res, status, mw,
                 gateSends, steps, reqVars, streamVars, signalVars,
                 reached, endSeen>>

\* ------------------------------------------- watchdog, end and close
\* Date.now() - (firstByteTime ?? connectionOpenTime)
TimeSinceFirstByte ==
  now - (IF firstByteTime = None THEN ConnectionOpenTime ELSE firstByteTime)

\* the setInterval callback
Tick ==
  /\ ~crashed /\ inflight = <<>>
  /\ intervalAlive /\ now = nextTick /\ sock # "destroyed"
  /\ IF TimeSinceFirstByte > Deadline
     THEN LET g == EmitTimeout(timeoutL, GateState)
          IN  /\ Install(g)
              /\ sock' = g.sock
              /\ intervalAlive' = g.thrown
              /\ nextTick' = IF g.thrown THEN nextTick + TickPeriod
                             ELSE None
              /\ timeoutCount' = timeoutCount + 1
              /\ timeoutReq' = reqCount
     ELSE /\ nextTick' = nextTick + TickPeriod
          /\ UNCHANGED <<res, status, timeoutL, incompleteL, finishL,
                         closeL, gateSends, steps, crashed, sock,
                         intervalAlive, timeoutCount, timeoutReq>>
  /\ UNCHANGED <<now, firstByteTime, bytesReceived, headersReceived,
                 contentLength, mw, reqVars, streamVars, incompleteCount,
                 reached, endSeen>>

\* socket.on("end")
OnEnd ==
  /\ ~crashed /\ inflight = <<>> /\ sock = "open"
  /\ IF bytesReceived # contentLength
     THEN LET g == EmitIncomplete(incompleteL,
                                  [GateState EXCEPT !.sock = "ended"])
          IN  /\ Install(g)
              /\ sock' = g.sock
              /\ incompleteCount' = incompleteCount + 1
     ELSE /\ sock' = "ended"
          /\ UNCHANGED <<res, status, timeoutL, incompleteL, finishL,
                         closeL, gateSends, steps, crashed,
                         incompleteCount>>
  /\ endSeen' = TRUE
  /\ UNCHANGED <<now, monitorVars, mw, reqVars, streamVars, timeoutCount,
                 timeoutReq, reached>>

\* a 'close' listener that leaves the interval running
OnCloseKeepsInterval ==
  /\ ~crashed /\ inflight = <<>>
  /\ sock \in {"open", "ended", "destroyed"}
  /\ sock' = "closed"
  /\ hdrTail' = <<>> /\ inBody' = FALSE /\ trueBody' = 0
  /\ lastDataTime' = ConnectionOpenTime
  /\ UNCHANGED <<now, monitorVars, crashed, gateVars, reqVars, inflight,
                 signalVars, reached, endSeen>>

\* socket.on("close"); the client's stream is over, its record is dropped
OnClose ==
  /\ ~crashed /\ inflight = <<>>
  /\ sock \in {"open", "ended", "destroyed"}
  /\ sock' = "closed"
  /\ intervalAlive' = FALSE
  /\ nextTick' = None
  /\ hdrTail' = <<>> /\ inBody' = FALSE /\ trueBody' = 0
  /\ lastDataTime' = ConnectionOpenTime
  /\ UNCHANGED <<now, firstByteTime, bytesReceived, headersReceived,
                 contentLength, crashed, gateVars, reqVars, inflight,
                 signalVars, reached, endSeen>>

\* Time passes; a due interval callback runs before the clock moves on,
\* and a destroyed socket closes before any timer runs.  Once the socket
\* is closed only a live interval still reads the clock.
Advance ==
  /\ ~crashed /\ inflight = <<>>
  /\ now < MaxTime
  /\ sock # "destroyed"
  /\ (sock = "closed" => intervalAlive)
  /\ ~(intervalAlive /\ now = nextTick)
  /\ now' = now + 1
  /\ UNCHANGED <<monitorVars, sock, crashed, gateVars, reqVars,
                 streamVars, signalVars, reached, endSeen>>

\* the parser completes the headers of some request
Dispatch ==
  /\ Readable /\ MayStartRequest
  /\ \E c \in Chunks, m \in Methods, h \in Headers : OnRequest(c, m, h)

\* the socket delivers some chunk
Receive ==
  /\ Readable
  /\ \E c \in Chunks : OnData(c)

Next ==
  \/ Dispatch
  \/ Receive
  \/ \E r \in Requests : RouteSend(r)
  \/ \E r \in Requests : ResFinish(r)
  \/ \E r \in Requests : ResClose(r)
  \/ Tick
  \/ OnEnd
  \/ OnClose
  \/ Advance

Spec == Init /\ [][Next]_vars

TypeOK ==
  /\ now \in 0..MaxTime
  /\ bytesReceived \in Nat
  /\ contentLength \in {None, HeaderLen} \cup 0..MaxLen
  /\ sock \in {"open", "ended", "destroyed", "closed"}
  /\ reqCount \in 0..MaxRequests

\* ===================================================================
\* Properties
\* ===================================================================
InList(l, r) == \E i \in 1..Len(l) : l[i] = r

BodyMethods == Methods \ {"GET"}

TimeoutEmitted    == timeoutCount' = timeoutCount + 1
IncompleteEmitted == incompleteCount' = incompleteCount + 1

\* the steps of one gate handler that logged, answered and destroyed
Handled(r) == << <<r, "log">>, <<r, "send">>, <<r, "destroy">> >>

\* C1: once the counted body bytes have reached the declared
\* Content-Length in time, no 'timeout' and no 'incompleteBody' is emitted
\* on the connection any more.
C1_NoSignalAfterComplete ==
  [][reached => (timeoutCount' = timeoutCount
                 /\ incompleteCount' = incompleteCount)]_vars

\* C2: a connection that declared N > 0, has an incomplete body, stays
\* open and has been silent for more than Deadline + TickPeriod has had
\* 'timeout' emitted, and 'timeout' is never emitted twice.
C2_TimeoutOnceWithinBound ==
  /\ timeoutCount <= 1
  /\ (/\ inBody /\ sock = "open" /\ ~crashed
      /\ now - lastDataTime > Deadline + TickPeriod) => timeoutCount = 1

\* C3: a connection that has ended after K < N body bytes has had
\* 'incompleteBody' emitted exactly once, and no 'timeout' is emitted
\* after its 'close'.
C3_IncompleteOnceOnShortEnd ==
  /\ []((inBody /\ endSeen) => incompleteCount = 1)
  /\ [][sock = "closed" => timeoutCount' = timeoutCount]_vars

\* C4: the middleware answers a POST/PUT/PATCH request whose
\* Content-Length header is "0" with 400 at once: it registers no
\* listener and does not call next().
C4_EmptyBodyRejected ==
  [][\A m \in BodyMethods :
       OnRequest(inflight', m, <<0>>) =>
         /\ status'[reqCount'] = 400
         /\ res'[reqCount'] = "sent"
         /\ mw' = "rejected"
         /\ UNCHANGED <<timeoutL, incompleteL, finishL, closeL>>]_vars

\* C4 witness: a request has been rejected with 400, no listener attached
C4_Rejected ==
  /\ reqCount >= 1 /\ mw = "rejected" /\ status[reqCount] = 400
  /\ header = <<0>> /\ timeoutL = <<>> /\ finishL = {}

\* C5: when a whole header block and B body bytes arrive in one chunk,
\* the counter equals B afterwards: header bytes are never counted.
C5_HeaderBytesNotCounted ==
  [][\A c \in Chunks :
       (OnData(c) /\ inflight = c /\ hdrTail = <<>>) =>
         bytesReceived' = BodyIn(c)]_vars

\* C6: cleanup is idempotent: in every reachable state a second cleanup
\* for the same request raises nothing and changes nothing the first one
\* left, and the gate has written at most one response per request.
C6_CleanupIdempotent ==
  \A r \in Requests :
    LET once  == cleanup(GateState, r)
        twice == cleanup(once, r)
    IN  /\ ~once.thrown
        /\ ~twice.thrown
        /\ twice = once
        /\ gateSends[r] <= 1

\* C6 witness: a signal handler has detached the gate of a request whose
\* response will still emit 'close' (the socket has closed)
C6_DetachedBySignal ==
  \E r \in Requests :
    /\ steps = Handled(r) /\ sock = "closed"
    /\ ~InList(timeoutL, r) /\ ~InList(incompleteL, r)
    /\ r \notin finishL /\ r \notin closeL
    /\ gateSends[r] = 1

C8_ShortBody ==
  /\ []((reqCount = 1 /\ inBody /\ endSeen) => incompleteCount = 1)
  /\ [][\A r \in Requests :
          (IncompleteEmitted /\ incompleteL = <<r>> /\ res[r] = "none") =>
            /\ status'[r] = 400 /\ res'[r] = "sent"
            /\ sock' = "destroyed" /\ ~crashed'
            /\ steps' = Handled(r)]_vars

\* C8 witness: the first request ended short and was answered 400
C8_EndedShort ==
  /\ reqCount = 1 /\ inBody /\ endSeen /\ incompleteCount = 1
  /\ status[1] = 400 /\ res[1] = "sent" /\ sock = "destroyed"

\* C9: a signal delivered to an attached gate whose response has already
\* been sent makes the gate attempt no write and only destroy the
\* connection.
C9_OnlyCloseWhenAlreadySent ==
  [][\A r \in Requests :
       (/\ res[r] # "none"
        /\ \/ TimeoutEmitted /\ timeoutL = <<r>>
           \/ IncompleteEmitted /\ incompleteL = <<r>>) =>
         /\ ~crashed'
         /\ sock' = "destroyed"
         /\ status'[r] = status[r]
         /\ \A i \in 1..Len(steps') : steps'[i][2] \notin {"send", "throw"}
    ]_vars

C11_HandlersNeverThrow ==
  [][/\ (TimeoutEmitted \/ IncompleteEmitted) => ~crashed'
     /\ TimeoutEmitted => ~intervalAlive']_vars

\* C12: within one request cycle (the current request, its response not
\* finished) 'timeout' and 'incompleteBody' are not both emitted.
C12_OneSignalPerRequest ==
  (/\ reqCount >= 1 /\ timeoutReq = reqCount
   /\ res[reqCount] # "finished") => incompleteCount = 0

\* C13: the watchdog measures inactivity from the most recent byte: a
\* 'timeout' is emitted for a request awaiting its body only when its last
\* chunk is older than the deadline.
C13_TimeoutFromLastByte ==
  [][(TimeoutEmitted /\ inBody) => now - lastDataTime > Deadline]_vars

\* C14: 'incompleteBody' is emitted only when the declared length is known
\* and the counter is below it; never for a request that carried no
\* Content-Length header.
C14_IncompleteOnlyWhenDeclared ==
  [][IncompleteEmitted =>
       (/\ header # NoHeader
        /\ contentLength # None
        /\ bytesReceived < contentLength)]_vars

\* the gate has subscribed request r to both signals and to the response
Subscribed(r) ==
  /\ timeoutL' = Append(timeoutL, r)
  /\ incompleteL' = Append(incompleteL, r)
  /\ finishL' = finishL \cup {r}
  /\ closeL' = closeL \cup {r}

\* C15 as stated: for a method other than POST/PUT/PATCH and for a request
\* that declares no body (no Content-Length header, or Content-Length 0)
\* the gate registers nothing and passes the request on; otherwise it
\* subscribes to both signals.
C15_NoBodyPassesThrough ==
  [][\A m \in Methods :
       OnRequest(inflight', m, header') =>
         IF m \notin BodyMethods \/ header' \in {NoHeader, <<0>>}
         THEN /\ mw' = "next"
              /\ UNCHANGED <<timeoutL, incompleteL, finishL, closeL>>
         ELSE Subscribed(reqCount')]_vars

\* C15 amended: the gate registers nothing and passes the request on only
\* for a method other than POST/PUT/PATCH; a POST/PUT/PATCH request with
\* Content-Length "0" gets no listener but is answered 400 and not passed
\* on; every other POST/PUT/PATCH request, also one without Content-Length
\* header, is subscribed to both signals and to the response's 'finish' and
\* 'close', and passed on.
C15_AttachByMethodAndLength ==
  [][\A m \in Methods :
       OnRequest(inflight', m, header') =>
         IF m \notin BodyMethods
         THEN /\ mw' = "next"
              /\ UNCHANGED <<timeoutL, incompleteL, finishL, closeL, res,
                             status>>
         ELSE IF header' = <<0>>
         THEN /\ mw' = "rejected" /\ status'[reqCount'] = 400
              /\ UNCHANGED <<timeoutL, incompleteL, finishL, closeL>>
         ELSE /\ mw' = "next"
              /\ Subscribed(reqCount')
              /\ UNCHANGED <<res, status>>]_vars

\* C15 witness: a request without Content-Length header has been subscribed
\* to both signals and passed on
C15_AttachedWithoutLength ==
  /\ reqCount >= 1 /\ header = NoHeader /\ mw = "next"
  /\ InList(timeoutL, reqCount) /\ InList(incompleteL, reqCount)
  /\ reqCount \in finishL /\ reqCount \in closeL

\* C16: the counters are reset between the requests of a connection: when
\* the headers of a request have been parsed, the body byte counter is 0
\* and the boundary flag is false.
C16_CountersResetPerRequest ==
  [][reqCount' = reqCount + 1 =>
       (bytesReceived = 0 /\ ~headersReceived)]_vars

\* C17: the declared length is that of the current request: absent when
\* the request has no Content-Length header, the header's value otherwise.
C17_DeclaredLengthIsCurrent ==
  reqCount >= 1 =>
    contentLength = (IF header = NoHeader THEN None ELSE ParseInt(header))

\* C18: the connection has one watchdog, started when the connection
\* opens and never started again once stopped; 'close' stops it whatever
\* happened before, and after 'close' it is not alive and never ticks.
C18_CloseCancelsWatchdog ==
  /\ [](intervalAlive <=> nextTick # None)
  /\ [](sock = "closed" => ~intervalAlive)
  /\ [][~intervalAlive => ~intervalAlive']_vars
  /\ [][sock = "closed" =>
          (sock' = "closed" /\ timeoutCount' = timeoutCount)]_vars

\* C18 witness: the socket has closed after 'timeout' was emitted, and the
\* watchdog is not alive
C18_ClosedAfterSignal ==
  sock = "closed" /\ timeoutCount = 1 /\ ~intervalAlive

\* the gate of request r holds none of its four subscriptions
Detached(r) ==
  /\ ~InList(timeoutL, r) /\ ~InList(incompleteL, r)
  /\ r \notin finishL /\ r \notin closeL

\* C19: once a request cycle has ended (a signal was delivered to its gate,
\* or its response finished) the gate holds no subscription for it; a
\* signal emitted when no gate is subscribed causes no log, no write and
\* no close; and the listeners of a connection never accumulate.
C19_DetachedAfterCycle ==
  /\ [][\A r \in Requests :
          (\/ (TimeoutEmitted /\ InList(timeoutL, r))
           \/ (IncompleteEmitted /\ InList(incompleteL, r))) =>
            Detached(r)']_vars
  /\ [](\A r \in Requests : res[r] = "finished" => Detached(r))
  /\ [][(\/ (TimeoutEmitted /\ timeoutL = <<>>)
          \/ (IncompleteEmitted /\ incompleteL = <<>>)) =>
          (/\ steps' = <<>> /\ res' = res /\ status' = status
           /\ sock' # "destroyed")]_vars
  /\ [](Len(timeoutL) <= 1 /\ Len(incompleteL) <= 1)

\* C20: the boundary scan looks at one chunk at a time.  When a header
\* block arrives split inside its separator while the boundary flag is
\* false, neither the chunk that ends inside the separator nor the chunk
\* that completes it sets the flag or adds a byte to the counter.
C20_SplitSeparatorNotDetected ==
  [][/\ (/\ ~headersReceived /\ inflight = <<>> /\ ~inBody
         /\ OnData(HeaderHead)) =>
          (~headersReceived' /\ bytesReceived' = bytesReceived)
     /\ (/\ ~headersReceived /\ inflight # <<>> /\ hdrTail = HeaderHead
         /\ IndexOf(inflight, SEP) = -1
         /\ OnData(inflight)) =>
          (~headersReceived' /\ bytesReceived' = bytesReceived)]_vars

\* C20 witness: the first request's header block arrived split, a body
\* byte has arrived since, and the flag is false and the counter 0
C20_SplitArrived ==
  /\ reqCount = 1 /\ inflight = <<>> /\ firstByteTime # None
  /\ trueBody = 1 /\ ~headersReceived /\ bytesReceived = 0

\* C21: the watchdog is armed once, when the connection opens, and no step
\* arms it again, the arrival of a later request on the same connection
\* included; once it is stopped, or once 'timeout' has been emitted, no
\* further 'timeout' is emitted on the connection.
C21_WatchdogArmedOnce ==
  /\ [][intervalAlive' => intervalAlive]_vars
  /\ [][reqCount' = reqCount + 1 =>
          (intervalAlive' = intervalAlive /\ nextTick' = nextTick)]_vars
  /\ [][(~intervalAlive \/ timeoutCount >= 1) => ~TimeoutEmitted]_vars

\* C21 witness: 'timeout' was emitted before the second request of the
\* connection arrived and stopped the watchdog; the second request still
\* owes body bytes on the open socket, the time since the first byte
\* exceeds the deadline, and no second 'timeout' has been emitted
C21_LaterRequestUnwatched ==
  /\ reqCount = 2 /\ timeoutReq # None /\ timeoutReq < reqCount
  /\ timeoutCount = 1 /\ ~intervalAlive
  /\ sock = "open" /\ ~crashed /\ inflight = <<>>
  /\ inBody /\ trueBody < Declared(header)
  /\ TimeSinceFirstByte > Deadline

====
